---- MODULE Spec2Model ----
(***************************************************************************)
(* Model of the vivliostyle-cli build pipeline (build, parseEntry,         *)
(* parseTheme, generateManifest, generateToC, generatePDF, parsePageSize,  *)
(* loadMetadata, loadTOC).                                                 *)
(*                                                                         *)
(* JavaScript strings are sequences of one-character strings; file-system  *)
(* paths are records [abs, segs] whose segments are such strings.          *)
(***************************************************************************)
EXTENDS Integers, Sequences, FiniteSets, TLC

\* ------------------------------------------------------------------ bounds
MaxEntries == 2     \* longest raw entry sequence explored
MaxSizeLen == 3     \* longest page-size string explored
MaxOtherDone == 1   \* 'done' events for actions other than 'toc' per session

\* ------------------------------------------------------- JavaScript values
Undefined == [t |-> "undefined"]
Bool(b) == [t |-> "boolean", b |-> b]
Str(s) == [t |-> "string", s |-> s]
Num(n) == [t |-> "number", n |-> n]

IsUndefined(x) == x.t = "undefined"
IsString(x) == x.t = "string"
\* a string that names a file or directory, kept as a path
PathStr(p) == [t |-> "pathstring", p |-> p]
Obj(r) == [t |-> "object", o |-> r]
Arr(q) == [t |-> "array", a |-> q]

\* ToBoolean of a JavaScript value.
Truthy(x) ==
  CASE x.t = "undefined" -> FALSE
    [] x.t = "boolean" -> x.b
    [] x.t = "string" -> Len(x.s) > 0
    [] x.t = "number" -> x.n # 0
    [] x.t = "pathstring" -> x.p.abs \/ Len(x.p.segs) > 0
    [] OTHER -> TRUE

\* a || b
Or(a, b) == IF Truthy(a) THEN a ELSE b

\* config?.field : the field of the config object, undefined without a config
Opt(obj, f) == IF obj.t = "object" THEN obj.o[f] ELSE Undefined

\* ---------------------------------------------------------------- strings
EndsWith(s, suf) ==
  /\ Len(s) >= Len(suf)
  /\ SubSeq(s, Len(s) - Len(suf) + 1, Len(s)) = suf

StartsWith(s, pre) ==
  /\ Len(s) >= Len(pre)
  /\ SubSeq(s, 1, Len(pre)) = pre

DotMd == <<".", "m", "d">>
DotHtml == <<".", "h", "t", "m", "l">>
DotCss == <<".", "c", "s", "s">>

\* String.prototype.split(','): the pieces between the commas.
RECURSIVE Split(_, _)
Split(s, sep) ==
  IF \A i \in 1..Len(s) : s[i] # sep
    THEN <<s>>
    ELSE LET k == CHOOSE i \in 1..Len(s) :
                    s[i] = sep /\ \A j \in 1..(i - 1) : s[j] # sep
         IN  <<SubSeq(s, 1, k - 1)>> \o Split(SubSeq(s, k + 1, Len(s)), sep)

\* s.replace(/\//g, '-')
ReplaceSlash(s) == [i \in 1..Len(s) |-> IF s[i] = "/" THEN "-" ELSE s[i]]

\* s.replace(/\.md$/, '.html')
ReplaceMd(s) ==
  IF EndsWith(s, DotMd) THEN SubSeq(s, 1, Len(s) - Len(DotMd)) \o DotHtml ELSE s

\* ------------------------------------------------------------------ paths
Abs(segs) == [abs |-> TRUE, segs |-> segs]
Rel(segs) == [abs |-> FALSE, segs |-> segs]
Dot == <<".">>
DotDot == <<".", ".">>

\* Removal of '.' and '..' segments of an absolute path ('..' at the root stays
\* at the root).
RECURSIVE Normalize(_, _)
Normalize(done, rest) ==
  IF rest = <<>> THEN done
  ELSE LET s == Head(rest) IN
       IF s = Dot \/ s = <<>> THEN Normalize(done, Tail(rest))
       ELSE IF s = DotDot
         THEN Normalize(IF done = <<>> THEN done
                        ELSE SubSeq(done, 1, Len(done) - 1), Tail(rest))
         ELSE Normalize(Append(done, s), Tail(rest))

\* path.resolve(base, p) for an absolute base
Resolve(base, p) ==
  IF p.abs THEN Abs(Normalize(<<>>, p.segs))
  ELSE Abs(Normalize(<<>>, base.segs \o p.segs))

RECURSIVE CommonPrefix(_, _)
CommonPrefix(a, b) ==
  IF a = <<>> \/ b = <<>> \/ Head(a) # Head(b) THEN 0
  ELSE 1 + CommonPrefix(Tail(a), Tail(b))

\* path.relative(from, to) for absolute, normalized paths
Relative(from, to) ==
  LET k == CommonPrefix(from.segs, to.segs)
  IN  Rel([i \in 1..(Len(from.segs) - k) |-> DotDot]
          \o SubSeq(to.segs, k + 1, Len(to.segs)))

\* path.join(dir, name...)
Join(dir, segs) == [abs |-> dir.abs, segs |-> Normalize(<<>>, dir.segs \o segs)]

\* path.dirname(p)
Dirname(p) ==
  IF p.segs = <<>> THEN p
  ELSE [p EXCEPT !.segs = SubSeq(p.segs, 1, Len(p.segs) - 1)]

\* path.basename(p) of a path
Basename(p) == IF p.segs = <<>> THEN <<>> ELSE p.segs[Len(p.segs)]

\* the path as a string ends with suf (suf holds no separator)
PathEndsWith(p, suf) == p.segs # <<>> /\ EndsWith(Basename(p), suf)

\* pathString.replace(/\.md$/, '.html')
PathReplaceMd(p) ==
  IF p.segs = <<>> THEN p
  ELSE [p EXCEPT !.segs[Len(p.segs)] = ReplaceMd(p.segs[Len(p.segs)])]

\* p lies strictly inside dir (is a proper descendant of it)
StrictlyInside(p, dir) ==
  /\ Len(p.segs) > Len(dir.segs)
  /\ SubSeq(p.segs, 1, Len(dir.segs)) = dir.segs

\* path.basename(s) of a string: what follows the last '/', trailing '/' dropped
RECURSIVE StrBasename(_)
StrBasename(s) ==
  IF s = <<>> THEN s
  ELSE IF s[Len(s)] = "/" THEN StrBasename(SubSeq(s, 1, Len(s) - 1))
  ELSE IF \A i \in 1..Len(s) : s[i] # "/" THEN s
  ELSE LET k == CHOOSE i \in 1..Len(s) :
                  s[i] = "/" /\ \A j \in (i + 1)..Len(s) : s[j] # "/"
       IN  SubSeq(s, k + 1, Len(s))

\* ------------------------------------------------------------ parsePageSize
Throw(msg) == [t |-> "throw", msg |-> msg]
IsThrow(x) == x.t = "throw"

Digits == <<"0", "1", "2", "3", "4", "5", "6", "7", "8", "9">>

\* `${size}` : the string form of a string or of a one-digit number
ToStr(x) == IF x.t = "number" THEN <<Digits[x.n + 1]>> ELSE x.s

\* the i-th element of a destructured array, undefined past its end
Elem(arr, i) == IF i <= Len(arr) THEN Str(arr[i]) ELSE Undefined

parsePageSize(size) ==
  LET parts == IF Truthy(size) THEN Split(ToStr(size), ",") ELSE <<>>
      width == Elem(parts, 1)
      height == Elem(parts, 2)
      others == IF Len(parts) > 2 THEN SubSeq(parts, 3, Len(parts)) ELSE <<>>
  IN  IF Len(others) # 0 THEN Throw("Cannot parse size")
      ELSE IF Truthy(width) /\ Truthy(height)
        THEN [t |-> "size", width |-> width.s, height |-> height.s]
        ELSE [t |-> "format", format |-> Or(width, Str(<<"L">>)).s]

\* --------------------------------------------------------------- parseTheme
Seg_p == <<"p">>
Seg_nm == <<"n", "m">>
Cwd == Abs(<<Seg_p>>)

ThemeUrlA == <<"h", "t", "t", "p", ":", "/", "/", "h", "/", "t", ".", "c", "s", "s">>
ThemeUrlB == <<"h", "t", "t", "p", "s", ":", "/", "/", "g", "/", "t", ".", "c", "s", "s">>
ThemeCssFile == <<".", "/", "t", ".", "c", "s", "s">>
ThemePkg == <<"@", "o", "/", "k">>
ThemePkgMain == <<"q">>
ThemeNoCss == <<"j">>
ThemeMissing == <<"x">>

\* resolvePkg(themeString, {cwd}): the installation root of the packages and
\* files present in the project, undefined for anything else.
resolvePkg(s) ==
  CASE s = ThemeCssFile -> PathStr(Join(Cwd, << <<"t", ".", "c", "s", "s">> >>))
    [] s = ThemePkg -> PathStr(Join(Cwd, <<Seg_nm, <<"@", "o">>, <<"k">> >>))
    [] s = ThemePkgMain -> PathStr(Join(Cwd, <<Seg_nm, <<"q">> >>))
    [] s = ThemeNoCss -> PathStr(Join(Cwd, <<Seg_nm, <<"j">> >>))
    [] OTHER -> Undefined

\* JSON.parse(readFileSync(pkgRoot/package.json)) of the installed packages
packageJson(pkgRoot) ==
  LET n == Basename(pkgRoot) IN
  CASE n = <<"k">> ->
         [name |-> Str(ThemePkg), themeStyle |-> Str(<<"k", ".", "c", "s", "s">>),
          themeStylesheet |-> Undefined, style |-> Str(<<"s", ".", "c", "s", "s">>),
          main |-> Str(<<"i", ".", "j", "s">>)]
    [] n = <<"q">> ->
         [name |-> Str(ThemePkgMain), themeStyle |-> Undefined,
          themeStylesheet |-> Undefined, style |-> Undefined,
          main |-> Str(<<"q", ".", "c", "s", "s">>)]
    [] OTHER ->
         [name |-> Str(n), themeStyle |-> Undefined,
          themeStylesheet |-> Undefined, style |-> Undefined,
          main |-> Str(<<"i", ".", "j", "s">>)]

Theme(type, name, location) ==
  [t |-> "theme", type |-> type, name |-> name, location |-> location]

\* /^https?:\/\//.test(s)
IsHttpUrl(s) ==
  \/ StartsWith(s, <<"h", "t", "t", "p", ":", "/", "/">>)
  \/ StartsWith(s, <<"h", "t", "t", "p", "s", ":", "/", "/">>)

\* path.resolve(pkgRoot, css) for a relative file name without separators
ResolveFile(dir, name) == Resolve(dir, Rel(<<name>>))

parseTheme(themeString) ==
  IF ~IsString(themeString) THEN Undefined
  ELSE IF IsHttpUrl(themeString.s)
    THEN Theme("uri", StrBasename(themeString.s), Str(themeString.s))
  ELSE LET pkgRoot == resolvePkg(themeString.s) IN
    IF ~Truthy(pkgRoot) THEN Throw("package not found")
    ELSE IF PathEndsWith(pkgRoot.p, DotCss)
      THEN Theme("path", Basename(pkgRoot.p), pkgRoot)
    ELSE LET pj == packageJson(pkgRoot.p)
             maybeCSS == Or(pj.themeStyle, Or(pj.themeStylesheet, Or(pj.style, pj.main)))
         IN  IF ~Truthy(maybeCSS) \/ ~EndsWith(maybeCSS.s, DotCss)
               THEN Throw("invalid css file")
               ELSE Theme("path", ReplaceSlash(pj.name.s) \o DotCss,
                          PathStr(ResolveFile(pkgRoot.p, maybeCSS.s)))

\* ------------------------------------------------------------- environment
\* Files of the project (cwd is /p): the documents the entries name, with the
\* title and theme reference found inside each (front matter, <title>, link).
F_a_md == <<"a", ".", "m", "d">>
F_a_html == <<"a", ".", "h", "t", "m", "l">>
F_b_md == <<"b", ".", "m", "d">>
F_c_md == <<"c", ".", "m", "d">>
F_x_md == <<"x", ".", "m", "d">>
F_n_md == <<"n", ".", "m", "d">>
Seg_s == <<"s">>
Seg_c == <<"c">>

Title_A == Str(<<"A">>)
Title_B == Str(<<"B">>)
Title_Cli == Str(<<"C", "T">>)
Title_Cfg == Str(<<"F", "T">>)

\* fs.readFileSync(sourcePath) followed by the extraction of title and theme;
\* exists = FALSE when reading the file throws.
sourceFile(path) ==
  CASE path = Abs(<<Seg_p, F_a_md>>) ->
         [exists |-> TRUE, title |-> Title_A, theme |-> Str(ThemeUrlA)]
    [] path = Abs(<<Seg_p, F_a_html>>) ->
         [exists |-> TRUE, title |-> Undefined, theme |-> Undefined]
    [] path = Abs(<<Seg_p, F_b_md>>) ->
         [exists |-> TRUE, title |-> Undefined, theme |-> Undefined]
    [] path = Abs(<<Seg_p, Seg_s, F_c_md>>) ->
         [exists |-> TRUE, title |-> Str(<<>>), theme |-> Str(ThemePkg)]
    [] path = Abs(<<Seg_p, Seg_s, F_a_md>>) ->
         [exists |-> TRUE, title |-> Undefined, theme |-> Undefined]
    [] path = Abs(<<F_x_md>>) ->
         [exists |-> TRUE, title |-> Undefined, theme |-> Undefined]
    [] OTHER -> [exists |-> FALSE, title |-> Undefined, theme |-> Undefined]

\* literal names of the source
N_vivliostyle == <<".", "v", "i", "v", "l", "i", "o", "s", "t", "y", "l", "e">>
N_artifacts == <<"a", "r", "t", "i", "f", "a", "c", "t", "s">>
N_manifest == <<"m", "a", "n", "i", "f", "e", "s", "t", ".", "j", "s", "o", "n">>
N_toc == <<"t", "o", "c", ".", "h", "t", "m", "l">>
N_output == <<"o", "u", "t", "p", "u", "t", ".", "p", "d", "f">>
N_config == <<"v", "i", "v", "l", "i", "o", "s", "t", "y", "l", "e", ".", "c", "o", "n", "f", "i", "g", ".", "j", "s">>
N_en == <<"e", "n">>
N_book == <<"b", "o", "o", "k">>

\* ------------------------------------------------------------------ inputs
CliFields == {"configPath", "input", "outFile", "rootDir", "theme", "size", "title",
              "language", "author", "pressReady", "verbose", "timeout", "loadMode",
              "sandbox", "executableChromium"}
CfgFields == {"title", "author", "language", "theme", "outDir", "outFile", "entry",
              "entryContext", "toc", "size", "pressReady", "timeout"}

NoFlags == [f \in CliFields |-> Undefined]
NoSettings == [f \in CfgFields |-> Undefined]

P(segs) == PathStr(Rel(segs))

\* raw entries as a user authors them
Entry(path, title, theme) == Obj([path |-> path, title |-> title, theme |-> theme])
E_a_md == P(<<F_a_md>>)
E_a_html == Entry(P(<<F_a_html>>), Undefined, Undefined)
E_b_md == P(<<F_b_md>>)
E_b_over == Entry(P(<<F_b_md>>), Title_B, Str(ThemeUrlB))
E_up_x == P(<<DotDot, F_x_md>>)
E_sub_c == Entry(P(<<Seg_s, F_c_md>>), Undefined, Str(ThemeCssFile))
E_missing == P(<<F_n_md>>)
E_badtheme == Entry(P(<<F_b_md>>), Undefined, Str(ThemeMissing))

EntryCandidates == {E_a_md, E_a_html, E_b_over, E_up_x, E_sub_c}

SeqsUpTo(S, n) == UNION {[1..k -> S] : k \in 0..n}

PkgBase == Obj([name |-> Str(<<"p", "n">>), author |-> Str(<<"p", "a">>)])

Input(cli, cfg, pkg, stale) == [cli |-> cli, cfg |-> cfg, pkg |-> pkg, stale |-> stale]

CfgWithEntry(e) == [NoSettings EXCEPT !.entry = e]

\* Entry sequences, with and without a root theme and a root title.
EntryInputs ==
  {Input([NoFlags EXCEPT !.theme = r[1]],
         Obj([CfgWithEntry(Arr(es)) EXCEPT !.theme = r[2], !.title = r[3]]), PkgBase, FALSE) :
     es \in SeqsUpTo(EntryCandidates, MaxEntries),
     r \in {<<Undefined, Undefined, Undefined>>, <<Str(ThemeUrlB), Undefined, Title_Cfg>>,
            <<Undefined, Str(ThemePkg), Undefined>>}}

\* Entries given in the other shapes: a single string, a single object, the
\* input flag, no config file at all; and entries that cannot be read.
EntryShapeInputs ==
  {Input(NoFlags, Obj(CfgWithEntry(e)), PkgBase, FALSE) :
     e \in {E_a_md, E_b_over, Undefined, Arr(<<E_missing>>), Arr(<<E_badtheme>>)}}
  \cup {Input([NoFlags EXCEPT !.input = E_b_md, !.theme = th], cfg, PkgBase, FALSE) :
     th \in {Undefined, Str(ThemeNoCss), Str(ThemePkgMain)},
     cfg \in {Undefined, Obj(CfgWithEntry(Arr(<<E_a_md, E_a_html>>)))}}
  \cup {Input(NoFlags, Undefined, Undefined, FALSE)}

\* the config-file path given on the command line
N_configFlag == P(<<Seg_c, <<"v", ".", "j", "s">>>>)

\* One field of the configuration at a time, from each source.
FieldInputs ==
  LET Base == CfgWithEntry(E_a_md)
      Both(f, g, cs, fs) ==
        {Input([NoFlags EXCEPT ![f] = c], Obj([Base EXCEPT ![g] = v]), pkg, FALSE) :
           c \in cs, v \in fs, pkg \in {Undefined, PkgBase}}
      CliOnly(f, cs) == {Input([NoFlags EXCEPT ![f] = c], Obj(Base), PkgBase, FALSE) : c \in cs}
      Bools == {Undefined, Bool(FALSE), Bool(TRUE)}
  IN  Both("title", "title", {Undefined, Str(<<>>), Title_Cli}, {Undefined, Title_Cfg})
      \cup Both("author", "author", {Undefined, Str(<<"c", "a">>)}, {Undefined, Str(<<"f", "a">>)})
      \cup Both("language", "language", {Undefined, Str(<<"j", "a">>)}, {Undefined, Str(<<"f", "r">>)})
      \cup Both("outFile", "outFile", {Undefined, P(<<<<"o", ".", "p", "d", "f">>>>)},
                {Undefined, P(<<<<"f", ".", "p", "d", "f">>>>)})
      \cup Both("size", "size", {Undefined, Str(<<"A", "4">>), Num(5)}, {Undefined, Str(<<"B", "5">>)})
      \cup Both("rootDir", "entryContext", {Undefined, P(<<Seg_s>>)}, {Undefined, P(<<Seg_s>>), P(<<Seg_c>>)})
      \cup Both("pressReady", "pressReady", Bools, Bools)
      \cup Both("timeout", "timeout", {Undefined, Num(0), Num(1000), Num(2000)}, {Undefined, Num(1000)})
      \cup Both("sandbox", "toc", Bools, Bools \cup {P(<<<<"t", ".", "h">>>>)})
      \cup Both("configPath", "outDir", {Undefined, N_configFlag},
                {Undefined, P(<<<<"o", "u", "t">>>>)})
      \cup CliOnly("loadMode", {Undefined, Str(<<"d", "o", "c">>)})
      \cup CliOnly("verbose", Bools)
      \cup CliOnly("executableChromium", {Undefined, P(<<<<"c", "h", "r">>>>)})

\* Page sizes: every string over these characters, and numbers.
SizeChars == {"a", "b", ","}
SizeInputs ==
  {Input([NoFlags EXCEPT !.size = sz], Obj(CfgWithEntry(E_a_md)), PkgBase, FALSE) :
     sz \in {Str(q) : q \in SeqsUpTo(SizeChars, MaxSizeLen)} \cup {Num(0), Num(5)}}

\* A build over the staging directory an earlier build left behind.
RebuildInputs ==
  {Input(NoFlags, Obj([CfgWithEntry(Arr(<<E_a_md, E_sub_c>>)) EXCEPT !.toc = tc]), PkgBase, TRUE) :
     tc \in {Undefined, Bool(FALSE), Bool(TRUE)}}

\* A config-file path given on the command line at which there is no file,
\* with and without the input flag.
MissingConfigInputs ==
  {Input([NoFlags EXCEPT !.configPath = N_configFlag, !.input = e], Undefined, PkgBase, FALSE) :
     e \in {Undefined, E_b_md}}

\* No entry at all, with a root theme that cannot be resolved.
NoEntryBadThemeInputs ==
  {Input([NoFlags EXCEPT !.theme = Str(ThemeMissing)], cfg, PkgBase, st) :
     cfg \in {Undefined, Obj(CfgWithEntry(Arr(<<>>)))}, st \in {FALSE, TRUE}}
  \cup {Input(NoFlags, Obj(CfgWithEntry(Arr(<<>>))), PkgBase, TRUE)}

Inputs ==
  EntryInputs \cup EntryShapeInputs \cup FieldInputs \cup SizeInputs \cup RebuildInputs
    \cup MissingConfigInputs \cup NoEntryBadThemeInputs

\* ------------------------------------------------------------ configuration
DefaultTimeout == 3000

\* ctxPath(context, loc): loc && path.resolve(context, loc)
ctxPath(context, loc) == IF Truthy(loc) THEN PathStr(Resolve(context, loc.p)) ELSE loc

\* path.resolve(s): a path string resolved against the working directory
resolveCwd(ps) == Resolve(Cwd, ps.p)

\* collectVivliostyleConfig(configPath): what the file at configPath exports,
\* undefined when there is no file (file is then undefined)
collectVivliostyleConfig(configPath, file) == IF IsUndefined(file) THEN Undefined ELSE file

\* The constants of build computed while loading the config file: config,
\* configBaseDir, distDir and artifactDir.
loadContext(cli, file) ==
  LET configPath == IF Truthy(cli.configPath) THEN Resolve(Cwd, cli.configPath.p)
                    ELSE Join(Cwd, <<N_config>>)
      cfg == collectVivliostyleConfig(configPath, file)
      configBaseDir == IF Truthy(cfg) THEN Dirname(configPath) ELSE Cwd
      dist == resolveCwd(Or(ctxPath(configBaseDir, Opt(cfg, "outDir")), P(<<N_vivliostyle>>)))
  IN  [config |-> cfg, configPath |-> configPath, configBaseDir |-> configBaseDir,
       distDir |-> dist, artifactDir |-> Join(dist, <<N_artifacts>>)]

\* The "merge config" block of build.
mergeSandbox(cli) == Or(cli.sandbox, Bool(TRUE))
mergeToc(cfg) == Or(Opt(cfg, "toc"), Bool(TRUE))
mergeLanguage(cli, cfg) == Or(Opt(cfg, "language"), Str(N_en))
mergeTimeout(cli, cfg) == Or(cli.timeout, Or(Opt(cfg, "timeout"), Num(DefaultTimeout)))

mergeConfig(cli, c, pkg) ==
  LET cfg == c.config IN
  [title |-> Or(cli.title, Or(Opt(cfg, "title"), Opt(pkg, "name"))),
   author |-> Or(cli.author, Or(Opt(cfg, "author"), Opt(pkg, "author"))),
   language |-> mergeLanguage(cli, cfg),
   outFile |-> resolveCwd(Or(cli.outFile,
                 Or(ctxPath(c.configBaseDir, Opt(cfg, "outFile")), P(<<Dot, N_output>>)))),
   size |-> Or(cli.size, Opt(cfg, "size")),
   contextDir |-> resolveCwd(Or(cli.rootDir,
                    Or(ctxPath(c.configBaseDir, Opt(cfg, "entryContext")), P(<<Dot>>)))),
   toc |-> mergeToc(cfg),
   pressReady |-> Or(cli.pressReady, Or(Opt(cfg, "pressReady"), Bool(FALSE))),
   verbose |-> Or(cli.verbose, Bool(FALSE)),
   timeout |-> mergeTimeout(cli, cfg),
   sandbox |-> mergeSandbox(cli),
   loadMode |-> Or(cli.loadMode, Str(N_book)),
   executableChromium |-> cli.executableChromium]

\* ------------------------------------------------------------------ entries
Field(e, f) == IF f \in DOMAIN e THEN e[f] ELSE Undefined

normalizeEnry(e) == IF e.t = "object" THEN e.o ELSE [path |-> e]

\* rawEntries of build
collectRawEntries(cli, cfg) ==
  IF Truthy(cli.input) THEN <<cli.input>>
  ELSE IF Truthy(cfg)
    THEN IF cfg.o.entry.t = "array" THEN cfg.o.entry.a
         ELSE IF Truthy(cfg.o.entry) THEN <<cfg.o.entry>> ELSE <<>>
    ELSE <<>>

First(q) == IF Len(q) > 0 THEN q[1] ELSE Undefined

parseMetadata(type, sourcePath) ==
  LET file == sourceFile(sourcePath) IN
  IF ~file.exists THEN Throw("ENOENT")
  ELSE LET th == parseTheme(file.theme) IN
       IF IsThrow(th) THEN th
       ELSE [t |-> "metadata",
             title |-> IF type = "markdown" THEN file.title ELSE Or(file.title, Undefined),
             theme |-> th]

\* pushTheme without the test on the names
pushThemeAlways(ths, parsedTheme) ==
  IF Truthy(parsedTheme) THEN Append(ths, parsedTheme) ELSE ths

\* themes after "if (parsedTheme && themes.every(...)) themes.push(parsedTheme)"
pushTheme(ths, parsedTheme) ==
  IF Truthy(parsedTheme) /\ \A i \in 1..Len(ths) : ths[i].name # parsedTheme.name
    THEN Append(ths, parsedTheme) ELSE ths

\* the theme parseEntry resolves, given the entry's own and the discovered one
resolveTheme(own, discovered, ths) == Or(own, Or(discovered, First(ths)))

targetOf(contextDir, artifactDir, sourcePath) ==
  PathReplaceMd(Resolve(artifactDir, Relative(contextDir, sourcePath)))

\* parseEntry(entry): the parsed entry and the themes after it, or the error
parseEntry(entry, e, c, ths) ==
  LET sourcePath == Resolve(e.contextDir, entry.path.p)
      targetPath == targetOf(e.contextDir, c.artifactDir, sourcePath)
      type == IF PathEndsWith(sourcePath, DotHtml) THEN "html" ELSE "markdown"
      meta == parseMetadata(type, sourcePath)
      own == parseTheme(Field(entry, "theme"))
  IN  IF IsThrow(meta) THEN meta
      ELSE IF IsThrow(own) THEN own
      ELSE LET parsedTheme == resolveTheme(own, meta.theme, ths) IN
        [t |-> "parsed",
         themes |-> pushTheme(ths, parsedTheme),
         entry |-> [type |-> type,
                    source |-> [path |-> sourcePath, dir |-> Dirname(sourcePath)],
                    target |-> [path |-> targetPath, dir |-> Dirname(targetPath)],
                    title |-> Or(Field(entry, "title"), Or(meta.title, Opt(c.config, "title"))),
                    theme |-> parsedTheme]]

\* ------------------------------------------------------------------ staging
IsUnder(p, dir) ==
  /\ Len(p.segs) >= Len(dir.segs)
  /\ SubSeq(p.segs, 1, Len(dir.segs)) = dir.segs

Ancestors(p) == {Abs(SubSeq(p.segs, 1, k)) : k \in 0..Len(p.segs)}

\* directories of the project, and what an earlier build left in .vivliostyle
ProjectDirs == {Abs(<<>>), Cwd, Join(Cwd, <<Seg_s>>), Join(Cwd, <<Seg_c>>)}
StaleDist == Join(Cwd, <<N_vivliostyle>>)
StaleFs ==
  [files |-> {Join(StaleDist, <<N_manifest>>), Join(StaleDist, <<N_toc>>),
              Join(StaleDist, <<N_artifacts, F_n_md>>)},
   dirs |-> ProjectDirs \cup {StaleDist, Join(StaleDist, <<N_artifacts>>)}]
FreshFs == [files |-> {}, dirs |-> ProjectDirs]

\* shelljs.rm('-rf', dir)
rmrf(f, dir) ==
  [files |-> {x \in f.files : ~IsUnder(x, dir)}, dirs |-> {x \in f.dirs : ~IsUnder(x, dir)}]

\* shelljs.mkdir('-p', dir)
mkdirp(f, dir) == [f EXCEPT !.dirs = @ \cup Ancestors(dir)]

\* fs.writeFileSync(path, ...) and a successful shelljs.cp(src, path)
writeFile(f, path) == [f EXCEPT !.files = @ \cup {path}]

\* shelljs.cp(src, dest): reports the error and copies nothing when the
\* destination directory does not exist
cp(f, srcExists, dest) ==
  IF srcExists /\ Dirname(dest) \in f.dirs THEN writeFile(f, dest) ELSE f

\* one iteration of the "populate entries" loop
populateEntry(f, entry) ==
  IF entry.type = "html" THEN cp(f, TRUE, entry.target.path)
  ELSE writeFile(mkdirp(f, entry.target.dir), entry.target.path)

\* the "copy theme" loop
RECURSIVE copyThemes(_, _, _)
copyThemes(f, ths, dist) ==
  IF ths = <<>> THEN f
  ELSE copyThemes(IF Head(ths).type = "path" THEN cp(f, TRUE, Join(dist, <<Head(ths).name>>))
                  ELSE f, Tail(ths), dist)

\* manifestEntries with the entries that have a title moved to the front
manifestEntriesTitledFirst(es, dist) ==
  LET titled == SelectSeq(es, LAMBDA e : Truthy(e.title))
      untitled == SelectSeq(es, LAMBDA e : ~Truthy(e.title))
      q == titled \o untitled
  IN  [i \in 1..Len(q) |-> [title |-> q[i].title, path |-> Relative(dist, q[i].target.path)]]

\* entries.map(entry => ({title, path: path.relative(distDir, entry.target.path)}))
manifestEntries(es, dist) ==
  [i \in 1..Len(es) |-> [title |-> es[i].title, path |-> Relative(dist, es[i].target.path)]]

\* a string literal of the source, kept whole
Lit(s) == [t |-> "string", lit |-> s]

TocLink == Obj([href |-> Str(N_toc), rel |-> Lit("contents"), type |-> Lit("text/html"),
                title |-> Lit("Table of Contents")])

manifestResources(toc) == IF Truthy(toc) THEN <<TocLink>> ELSE <<>>

\* JSON.stringify(object): members whose value is undefined are left out
stringify(obj) == Obj([f \in {g \in DOMAIN obj : ~IsUndefined(obj[g])} |-> obj[f]])

\* the JSON document generateManifest writes
generateManifest(options) ==
  stringify(
    [context |-> Lit("https://readium.org/webpub-manifest/context.jsonld"),
     metadata |-> stringify([type |-> Lit("http://schema.org/Book"),
                             title |-> options.title, author |-> options.author,
                             language |-> options.language,
                             modified |-> options.modified]),
     links |-> Arr(<<>>),
     readingOrder |-> Arr([i \in 1..Len(options.entries) |->
                         stringify([href |-> PathStr(options.entries[i].path),
                                    type |-> Lit("text/html"),
                                    title |-> options.entries[i].title])]),
     resources |-> Arr(manifestResources(options.toc))])

\* path.basename(p, '.html')
BasenameNoHtml(p) ==
  LET b == Basename(p) IN
  IF EndsWith(b, DotHtml) /\ Len(b) > Len(DotHtml)
    THEN SubSeq(b, 1, Len(b) - Len(DotHtml)) ELSE b

\* the list items of the document generateToC builds
generateToC(es, dist) ==
  [i \in 1..Len(es) |->
     [href |-> Relative(dist, es[i].target.path),
      label |-> Or(es[i].title, Str(BasenameNoHtml(es[i].target.path)))]]

\* the user's own table of contents, when there is one
userTocExists(path) == path = Join(Cwd, <<<<"t", ".", "h">>>>)

\* ------------------------------------------------------------------- state
VARIABLES
  cliFlags,     \* the flags build is called with
  configFile,   \* the object the config file exports, undefined without a file
  pkgJson,      \* the nearest package.json, undefined without one
  pc,           \* the statement build or generatePDF is at
  error,        \* the error that ended the build, undefined while there is none
  ctx,          \* config, configBaseDir, distDir, artifactDir
  eff,          \* the merged configuration
  themes,       \* themes: ParsedTheme[]
  rawEntries,   \* rawEntries
  entries,      \* entries: ParsedEntry[], as far as the map has come
  populated,    \* entries the populate loop has handled
  fs,           \* files and directories on disk
  manifest,     \* the document written to manifest.json
  tocDoc,       \* the items of the generated toc.html
  outputSize,   \* outputSize of generatePDF
  servers,      \* the source and broker servers are listening
  browser,      \* "none", "open" or "closed"
  launchArgs,   \* args of launchBrowser
  page,         \* the page and the viewer in it
  elapsed,      \* milliseconds the pending waitForFunction has waited
  otherDone,    \* 'done' events of other actions the viewer has emitted
  metadata,     \* result of loadMetadata
  toc,          \* result of loadTOC
  pdf,          \* result of page.pdf
  post          \* the PostProcess calls made, in order

buildVars == <<pc, error, ctx, eff, themes, rawEntries, entries, populated, fs, manifest, tocDoc>>
inputVars == <<cliFlags, configFile, pkgJson>>
renderVars == <<outputSize, servers, browser, launchArgs, page, elapsed, otherDone,
                metadata, toc, pdf, post>>
vars == <<inputVars, buildVars, renderVars>>

Fail(e) == pc' = "failed" /\ error' = e

\* build, up to the config file (lines 398-413)
LoadConfig ==
  /\ pc = "loadConfig"
  /\ ctx' = loadContext(cliFlags, configFile)
  /\ pc' = "mergeConfig"
  /\ UNCHANGED <<inputVars, renderVars, error, eff, themes, rawEntries, entries, populated, fs, manifest, tocDoc>>

\* build, "merge config" (lines 415-434)
MergeConfig ==
  /\ pc = "mergeConfig"
  /\ eff' = mergeConfig(cliFlags, ctx, pkgJson)
  /\ pc' = "setupThemes"
  /\ UNCHANGED <<inputVars, renderVars, error, ctx, themes, rawEntries, entries, populated, fs, manifest, tocDoc>>

\* build, "setup themes" (lines 436-442) and rawEntries (lines 498-507)
SetupThemes ==
  /\ pc = "setupThemes"
  /\ LET theme == Or(cliFlags.theme, Opt(ctx.config, "theme"))
         rootTheme == IF Truthy(theme) THEN parseTheme(theme) ELSE Undefined
     IN  \/ /\ IsThrow(rootTheme)
            /\ Fail(rootTheme)
            /\ UNCHANGED <<themes, rawEntries>>
         \/ /\ ~IsThrow(rootTheme)
            /\ themes' = IF Truthy(rootTheme) THEN <<rootTheme>> ELSE <<>>
            /\ rawEntries' = collectRawEntries(cliFlags, ctx.config)
            /\ pc' = "parseEntries"
            /\ UNCHANGED error
  /\ UNCHANGED <<inputVars, renderVars, ctx, eff, entries, populated, fs, manifest, tocDoc>>

\* one element of rawEntries.map(normalizeEnry).map(parseEntry) (line 509)
ParseEntry ==
  /\ pc = "parseEntries"
  /\ Len(entries) < Len(rawEntries)
  /\ LET r == parseEntry(normalizeEnry(rawEntries[Len(entries) + 1]), eff, ctx, themes)
     IN  \/ /\ IsThrow(r)
            /\ Fail(r)
            /\ UNCHANGED <<themes, entries>>
         \/ /\ ~IsThrow(r)
            /\ themes' = r.themes
            /\ entries' = Append(entries, r.entry)
            /\ UNCHANGED <<pc, error>>
  /\ UNCHANGED <<inputVars, renderVars, ctx, eff, rawEntries, populated, fs, manifest, tocDoc>>

\* the test that lets an empty entry list through to staging
noEntryFoundNever(es) == FALSE

\* entries.length === 0 (line 511)
noEntryFound(es) == Len(es) = 0

\* "if (entries.length === 0) throw" and "cleanup dist" (lines 511-520)
CleanupDist ==
  /\ pc = "parseEntries"
  /\ Len(entries) = Len(rawEntries)
  /\ \/ /\ noEntryFound(entries)
        /\ Fail(Throw("no entry found"))
        /\ UNCHANGED fs
     \/ /\ ~noEntryFound(entries)
        /\ fs' = mkdirp(rmrf(fs, ctx.distDir), ctx.artifactDir)
        /\ pc' = "populate"
        /\ UNCHANGED error
  /\ UNCHANGED <<inputVars, renderVars, ctx, eff, themes, rawEntries, entries, populated, manifest, tocDoc>>

\* one iteration of "populate entries" (lines 523-541)
PopulateEntry ==
  /\ pc = "populate"
  /\ populated < Len(entries)
  /\ fs' = populateEntry(fs, entries[populated + 1])
  /\ populated' = populated + 1
  /\ UNCHANGED <<inputVars, renderVars, pc, error, ctx, eff, themes, rawEntries, entries, manifest, tocDoc>>

\* "copy theme" (lines 544-548)
CopyThemes ==
  /\ pc = "populate"
  /\ populated = Len(entries)
  /\ fs' = copyThemes(fs, themes, ctx.distDir)
  /\ pc' = "manifest"
  /\ UNCHANGED <<inputVars, renderVars, error, ctx, eff, themes, rawEntries, entries, populated, manifest, tocDoc>>

\* "generate manifest" (lines 551-562)
GenerateManifest ==
  /\ pc = "manifest"
  /\ manifest' = generateManifest(
       [title |-> eff.title, author |-> eff.author, language |-> eff.language,
        toc |-> eff.toc, entries |-> manifestEntries(entries, ctx.distDir),
        modified |-> Lit("now")])
  /\ fs' = writeFile(fs, Join(ctx.distDir, <<N_manifest>>))
  /\ pc' = "toc"
  /\ UNCHANGED <<inputVars, renderVars, error, ctx, eff, themes, rawEntries, entries, populated, tocDoc>>

\* "generate toc" (lines 565-573)
GenerateToc ==
  /\ pc = "toc"
  /\ LET distTocPath == Join(ctx.distDir, <<N_toc>>) IN
     IF ~Truthy(eff.toc) THEN UNCHANGED <<fs, tocDoc>>
     ELSE IF eff.toc.t = "pathstring"
       THEN /\ fs' = cp(fs, userTocExists(ctxPath(eff.contextDir, eff.toc).p), distTocPath)
            /\ UNCHANGED tocDoc
       ELSE /\ tocDoc' = Arr(generateToC(entries, ctx.distDir))
            /\ fs' = writeFile(fs, distTocPath)
  /\ pc' = "generatePDF"
  /\ UNCHANGED <<inputVars, renderVars, error, ctx, eff, themes, rawEntries, entries, populated, manifest>>

\* --------------------------------------------------------------- generatePDF
PollInterval == 1000

stagingVars == <<ctx, eff, themes, rawEntries, entries, populated, manifest, tocDoc>>

\* loaded: page.goto has resolved; viewer: window.coreViewer and its
\* readyState; media: the emulated media type; tocVisible: the TOC panel is
\* shown; tocRequested: a showTOC call the viewer has not yet answered with a
\* 'done' event of action 'toc'; tocDone: such events emitted so far;
\* listener: the listener of loadTOC is registered for 'done'
NoPage == [loaded |-> FALSE, viewer |-> "absent", media |-> "screen",
           tocVisible |-> FALSE, tocRequested |-> FALSE, tocDone |-> 0,
           listener |-> FALSE]

\* showTOC that leaves the panel shown whatever it is asked
showTOCKeepsShown(pg, show) == [pg EXCEPT !.tocVisible = TRUE, !.tocRequested = TRUE]

\* window.coreViewer.showTOC(show) (lines 388, 392)
showTOC(pg, show) == [pg EXCEPT !.tocVisible = show, !.tocRequested = TRUE]

\* the listener without the test of the action: any 'done' event resolves
listenerAnyAction(pg, a) ==
  [page |-> showTOC([pg EXCEPT !.listener = FALSE], FALSE), resolved |-> TRUE]

\* listener(payload) with payload.a = a (lines 383-390): the page after it
\* and whether it has resolved the promise
listener(pg, a) ==
  IF a # "toc" THEN [page |-> pg, resolved |-> FALSE]
  ELSE [page |-> showTOC([pg EXCEPT !.listener = FALSE], FALSE), resolved |-> TRUE]

\* the test of page.waitFor that takes the viewer for present at once
coreViewerAssumed(pg) == TRUE

\* !!window.coreViewer (line 318)
coreViewerPresent(pg) == pg.viewer # "absent"

\* args of launchBrowser (line 288)
browserArgs(sandbox) == <<IF Truthy(sandbox) THEN "" ELSE "--no-sandbox">>

\* outputFile of generatePDF (lines 260-263); no directory is made or removed
\* between this test and post.save
outputFileOf(f, outputPath) ==
  IF outputPath \in f.dirs THEN Resolve(outputPath, Rel(<<N_output>>)) ELSE outputPath

\* waitForReady with a fallback: when the time is up the wait returns as if the
\* viewer were ready, and the capture goes on with a partly paginated document
waitForReadyOrGiveUp(viewer, waited, timeout) ==
  IF viewer = "complete" THEN "ready"
  ELSE IF timeout # 0 /\ waited + PollInterval >= timeout THEN "ready"
  ELSE "again"

\* what one poll of page.waitForFunction(readyState === 'complete',
\* {polling: 1000, timeout}) comes to: timeout 0 waits without limit
waitForReady(viewer, waited, timeout) ==
  IF viewer = "complete" THEN "ready"
  ELSE IF timeout # 0 /\ waited + PollInterval >= timeout THEN "timeout"
  ELSE "again"

\* a browser, page or PostProcess call that rejects
StepFails(msg) ==
  /\ Fail(Throw(msg))
  /\ UNCHANGED <<inputVars, stagingVars, fs, renderVars>>

\* generatePDF up to the servers (lines 256-264)
Prepare ==
  /\ pc = "generatePDF"
  /\ LET sz == IF Truthy(eff.size) THEN parsePageSize(eff.size) ELSE Undefined IN
     \/ /\ IsThrow(sz)
        /\ Fail(sz)
        /\ UNCHANGED outputSize
     \/ /\ ~IsThrow(sz)
        /\ outputSize' = sz
        /\ pc' = "launchServers"
        /\ UNCHANGED error
  /\ UNCHANGED <<inputVars, stagingVars, fs, servers, browser, launchArgs, page, elapsed,
                 otherDone, metadata, toc, pdf, post>>

\* launchSourceAndBrokerServer (lines 266-276)
LaunchServers ==
  /\ pc = "launchServers"
  /\ \/ /\ servers' = TRUE
        /\ pc' = "launchBrowser"
        /\ UNCHANGED <<inputVars, stagingVars, fs, error, outputSize, browser, launchArgs,
                       page, elapsed, otherDone, metadata, toc, pdf, post>>
     \/ StepFails("launchSourceAndBrokerServer")

\* launchBrowser (lines 284-289)
LaunchBrowser ==
  /\ pc = "launchBrowser"
  /\ \/ /\ browser' = "open"
        /\ launchArgs' = browserArgs(eff.sandbox)
        /\ pc' = "version"
        /\ UNCHANGED <<inputVars, stagingVars, fs, error, outputSize, servers, page,
                       elapsed, otherDone, metadata, toc, pdf, post>>
     \/ StepFails("launchBrowser")

\* a call that only succeeds or fails: browser.version, browser.newPage
Advance(from, to) ==
  /\ pc = from
  /\ \/ /\ pc' = to
        /\ UNCHANGED <<inputVars, stagingVars, fs, error, renderVars>>
     \/ StepFails(from)

\* browser.version() (line 290)
Version == Advance("version", "newPage")

\* browser.newPage() and the page.on handlers (lines 293-313)
NewPage == Advance("newPage", "goto")

\* page.goto(navigateURL) (line 317)
Goto ==
  /\ pc = "goto"
  /\ \/ /\ page' = [page EXCEPT !.loaded = TRUE]
        /\ pc' = "waitViewer"
        /\ UNCHANGED <<inputVars, stagingVars, fs, error, outputSize, servers, browser,
                       launchArgs, elapsed, otherDone, metadata, toc, pdf, post>>
     \/ StepFails("goto")

\* page.waitFor(() => !!window.coreViewer) (line 318)
WaitViewer ==
  /\ pc = "waitViewer"
  /\ \/ /\ coreViewerPresent(page)
        /\ pc' = "loadMetadata"
        /\ UNCHANGED <<inputVars, stagingVars, fs, error, renderVars>>
     \/ StepFails("waitFor")

\* loadMetadata(page) without the await: the flow goes on to loadTOC before
\* the metadata is there
LoadMetadataNotAwaited == Advance("loadMetadata", "loadTOC")

\* loadMetadata(page) (lines 320, 372-374)
LoadMetadata ==
  /\ pc = "loadMetadata"
  /\ \/ /\ metadata' = [t |-> "meta", at |-> page.viewer, media |-> page.media]
        /\ pc' = "loadTOC"
        /\ UNCHANGED <<inputVars, stagingVars, fs, error, outputSize, servers, browser,
                       launchArgs, page, elapsed, otherDone, toc, pdf, post>>
     \/ StepFails("loadMetadata")

\* loadTOC(page): the promise executor (lines 321, 380-393)
LoadTOC ==
  /\ pc = "loadTOC"
  /\ \/ /\ page' = showTOC([page EXCEPT !.listener = TRUE], TRUE)
        /\ pc' = "awaitTOC"
        /\ UNCHANGED <<inputVars, stagingVars, fs, error, outputSize, servers, browser,
                       launchArgs, elapsed, otherDone, metadata, toc, pdf, post>>
     \/ StepFails("loadTOC")

\* The viewer emits a 'done' event with payload.a = a; the listener of
\* loadTOC, when registered, is called with it, and when it resolves the
\* promise, loadTOC returns what getTOC gave (lines 383-390, 321).
Done(pg, a) ==
  IF pg.listener
    THEN LET r == listener(pg, a) IN
         /\ page' = r.page
         /\ IF r.resolved
              THEN /\ toc' = [t |-> "toc", at |-> pg.viewer, media |-> pg.media]
                   /\ pc' = IF pc = "awaitTOC" THEN "emulate" ELSE pc
              ELSE UNCHANGED <<toc, pc>>
    ELSE /\ page' = pg
         /\ UNCHANGED <<toc, pc>>

\* The viewer answers a showTOC call with 'done' for the action 'toc'.
DoneToc ==
  /\ pc \notin {"failed", "done"}
  /\ browser = "open"
  /\ page.tocRequested
  /\ Done([page EXCEPT !.tocRequested = FALSE, !.tocDone = @ + 1], "toc")
  /\ UNCHANGED <<inputVars, stagingVars, fs, error, outputSize, servers, browser,
                 launchArgs, elapsed, otherDone, metadata, pdf, post>>

\* The viewer emits 'done' for another action while the listener of loadTOC
\* is registered.
DoneOther ==
  /\ pc \notin {"failed", "done"}
  /\ browser = "open"
  /\ page.listener
  /\ otherDone < MaxOtherDone
  /\ otherDone' = otherDone + 1
  /\ Done(page, "nav")
  /\ UNCHANGED <<inputVars, stagingVars, fs, error, outputSize, servers, browser,
                 launchArgs, elapsed, metadata, pdf, post>>

\* The viewer loads and paginates: window.coreViewer appears and its
\* readyState goes from loading over interactive to complete.
ViewerProgress ==
  /\ pc \notin {"failed", "done"}
  /\ browser = "open"
  /\ page.loaded
  /\ page.viewer # "complete"
  /\ page' = [page EXCEPT !.viewer = CASE @ = "absent" -> "loading"
                                       [] @ = "loading" -> "interactive"
                                       [] OTHER -> "complete"]
  /\ UNCHANGED <<inputVars, buildVars, outputSize, servers, browser, launchArgs,
                 elapsed, otherDone, metadata, toc, pdf, post>>

\* page.emulateMediaType('print') (line 323)
Emulate ==
  /\ pc = "emulate"
  /\ \/ /\ page' = [page EXCEPT !.media = "print"]
        /\ pc' = "waitReady"
        /\ UNCHANGED <<inputVars, stagingVars, fs, error, outputSize, servers, browser,
                       launchArgs, elapsed, otherDone, metadata, toc, pdf, post>>
     \/ StepFails("emulateMediaType")

\* one poll of page.waitForFunction (lines 324-330)
WaitReady ==
  /\ pc = "waitReady"
  /\ LET w == waitForReady(page.viewer, elapsed, eff.timeout.n) IN
     \/ /\ w = "ready"
        /\ pc' = "pdf"
        /\ elapsed' = 0
        /\ UNCHANGED error
     \/ /\ w = "again"
        /\ eff.timeout.n # 0
        /\ elapsed' = elapsed + PollInterval
        /\ UNCHANGED <<pc, error>>
     \/ /\ w = "timeout"
        /\ Fail(Throw("TimeoutError"))
        /\ UNCHANGED elapsed
  /\ UNCHANGED <<inputVars, stagingVars, fs, outputSize, servers, browser, launchArgs,
                 page, otherDone, metadata, toc, pdf, post>>

\* page.pdf(...) (lines 334-343)
Pdf ==
  /\ pc = "pdf"
  /\ \/ /\ pdf' = [t |-> "pdf", viewer |-> page.viewer, media |-> page.media,
                   tocVisible |-> page.tocVisible]
        /\ pc' = "close"
        /\ UNCHANGED <<inputVars, stagingVars, fs, error, outputSize, servers, browser,
                       launchArgs, page, elapsed, otherDone, metadata, toc, post>>
     \/ StepFails("pdf")

\* browser.close() (line 347)
Close ==
  /\ pc = "close"
  /\ browser' = "closed"
  /\ pc' = "postLoad"
  /\ UNCHANGED <<inputVars, stagingVars, fs, error, outputSize, servers, launchArgs,
                 page, elapsed, otherDone, metadata, toc, pdf, post>>

\* one PostProcess call
PostCall(from, to, call) ==
  /\ pc = from
  /\ \/ /\ post' = Append(post, call)
        /\ pc' = to
        /\ UNCHANGED <<inputVars, stagingVars, fs, error, outputSize, servers, browser,
                       launchArgs, page, elapsed, otherDone, metadata, toc, pdf>>
     \/ StepFails(from)

\* PostProcess.load(pdf), post.metadata(metadata), post.toc(toc) (lines 349-351)
PostLoad == PostCall("postLoad", "postMetadata", [call |-> "load", arg |-> pdf])
\* post.toc(toc) called where post.metadata(metadata) is
PostTocBeforeMetadata == PostCall("postMetadata", "postToc", [call |-> "toc", arg |-> toc])
PostMetadata == PostCall("postMetadata", "postToc", [call |-> "metadata", arg |-> metadata])
PostToc == PostCall("postToc", "save", [call |-> "toc", arg |-> toc])

\* post.save(outputFile, {pressReady}) (lines 352-353)
Save ==
  /\ pc = "save"
  /\ \/ /\ post' = Append(post, [call |-> "save", arg |-> eff.pressReady])
        /\ fs' = writeFile(fs, outputFileOf(fs, eff.outFile))
        /\ pc' = "done"
        /\ UNCHANGED <<inputVars, stagingVars, error, outputSize, servers, browser,
                       launchArgs, page, elapsed, otherDone, metadata, toc, pdf>>
     \/ StepFails("save")

\* ---------------------------------------------------------------- the build
Init ==
  /\ \E inp \in Inputs :
       /\ cliFlags = inp.cli
       /\ configFile = inp.cfg
       /\ pkgJson = inp.pkg
       /\ fs = IF inp.stale THEN StaleFs ELSE FreshFs
  /\ pc = "loadConfig"
  /\ error = Undefined
  /\ ctx = Undefined
  /\ eff = Undefined
  /\ themes = <<>>
  /\ rawEntries = <<>>
  /\ entries = <<>>
  /\ populated = 0
  /\ manifest = Undefined
  /\ tocDoc = Undefined
  /\ outputSize = Undefined
  /\ servers = FALSE
  /\ browser = "none"
  /\ launchArgs = <<>>
  /\ page = NoPage
  /\ elapsed = 0
  /\ otherDone = 0
  /\ metadata = Undefined
  /\ toc = Undefined
  /\ pdf = Undefined
  /\ post = <<>>

Next ==
  \/ LoadConfig
  \/ MergeConfig
  \/ SetupThemes
  \/ ParseEntry
  \/ CleanupDist
  \/ PopulateEntry
  \/ CopyThemes
  \/ GenerateManifest
  \/ GenerateToc
  \/ Prepare
  \/ LaunchServers
  \/ LaunchBrowser
  \/ Version
  \/ NewPage
  \/ Goto
  \/ WaitViewer
  \/ LoadMetadata
  \/ LoadTOC
  \/ DoneToc
  \/ DoneOther
  \/ ViewerProgress
  \/ Emulate
  \/ WaitReady
  \/ Pdf
  \/ Close
  \/ PostLoad
  \/ PostMetadata
  \/ PostToc
  \/ Save

Spec == Init /\ [][Next]_vars

\* The steps of generatePDF itself: every awaited call returns or rejects, and
\* every poll of waitForFunction is made. The viewer's steps (DoneToc,
\* DoneOther, ViewerProgress) are the engine's to take or not.
Render ==
  \/ Prepare \/ LaunchServers \/ LaunchBrowser \/ Version \/ NewPage \/ Goto
  \/ WaitViewer \/ LoadMetadata \/ LoadTOC \/ Emulate \/ WaitReady \/ Pdf \/ Close
  \/ PostLoad \/ PostMetadata \/ PostToc \/ Save

\* The render session under the scheduling of the event loop: a continuation
\* of generatePDF that can run does run.
FairSpec == Spec /\ WF_vars(Render)

\* ------------------------------------------------------------------- claims
AfterPreparePcs == {"launchServers", "launchBrowser", "version", "newPage", "goto",
                    "waitViewer", "loadMetadata", "loadTOC", "awaitTOC", "emulate",
                    "waitReady", "pdf", "close", "postLoad", "postMetadata", "postToc",
                    "save", "done"}
AfterWaitPcs == {"pdf", "close", "postLoad", "postMetadata", "postToc", "save", "done"}
Merged == pc \notin {"loadConfig", "mergeConfig"}
TimedOut == error = Throw("TimeoutError")

\* the first value of q that was supplied, undefined when none was
RECURSIVE Pick(_)
Pick(q) ==
  IF q = <<>> THEN Undefined
  ELSE IF ~IsUndefined(Head(q)) THEN Head(q) ELSE Pick(Tail(q))

\* C1: whenever the build has ended in failure, the browser generatePDF
\* launched is not open any more
C1_BrowserClosedOnFailure == pc = "failed" => browser # "open"

\* C2: a wait for readyState 'complete' that runs out of time ends the build in
\* failure with no PDF captured, no PostProcess call made and no file at the
\* output path; the capture and the post-processing only ever happen once the
\* viewer was complete
C2_TimeoutIsFatal ==
  /\ TimedOut =>
       /\ pc = "failed"
       /\ pdf = Undefined
       /\ post = <<>>
       /\ outputFileOf(fs, eff.outFile) \notin fs.files
  /\ (pc \in AfterWaitPcs \/ pdf # Undefined \/ post # <<>>) => page.viewer = "complete"

\* C2, the case: the wait has polled at least once and has run out of time
\* while the viewer was still paginating
C2_Witness ==
  /\ TimedOut
  /\ elapsed >= PollInterval
  /\ page.viewer \in {"loading", "interactive"}
  /\ page.media = "print"

\* C3: every field of the merged configuration is the first supplied value in
\* the order CLI flag, config file, package metadata, default
C3_Precedence ==
  Merged =>
    LET cfg == ctx.config
        base == ctx.configBaseDir
        path(v, dir) == IF IsUndefined(v) THEN v ELSE PathStr(Resolve(dir, v.p))
    IN  /\ eff.title = Pick(<<cliFlags.title, Opt(cfg, "title"), Opt(pkgJson, "name")>>)
        /\ eff.author = Pick(<<cliFlags.author, Opt(cfg, "author"), Opt(pkgJson, "author")>>)
        /\ eff.language = Pick(<<cliFlags.language, Opt(cfg, "language"), Str(N_en)>>)
        /\ eff.size = Pick(<<cliFlags.size, Opt(cfg, "size")>>)
        /\ eff.toc = Pick(<<Opt(cfg, "toc"), Bool(TRUE)>>)
        /\ eff.pressReady = Pick(<<cliFlags.pressReady, Opt(cfg, "pressReady"), Bool(FALSE)>>)
        /\ eff.timeout = Pick(<<cliFlags.timeout, Opt(cfg, "timeout"), Num(DefaultTimeout)>>)
        /\ eff.sandbox = Pick(<<cliFlags.sandbox, Bool(TRUE)>>)
        /\ eff.loadMode = Pick(<<cliFlags.loadMode, Str(N_book)>>)
        /\ PathStr(eff.outFile) = Pick(<<path(cliFlags.outFile, Cwd),
                                         path(Opt(cfg, "outFile"), base),
                                         PathStr(Join(Cwd, <<N_output>>))>>)
        /\ PathStr(eff.contextDir) = Pick(<<path(cliFlags.rootDir, Cwd),
                                            path(Opt(cfg, "entryContext"), base),
                                            PathStr(Cwd)>>)

\* C4: the browser is launched with '--no-sandbox' exactly when the caller's
\* sandbox flag is false
C4_SandboxFlag ==
  browser # "none" =>
    ((\E i \in 1..Len(launchArgs) : launchArgs[i] = "--no-sandbox")
       <=> cliFlags.sandbox = Bool(FALSE))

\* C5: the target paths of the parsed entries are pairwise distinct and each
\* lies strictly inside the artifacts directory
C5_TargetsDistinctInside ==
  \A i \in 1..Len(entries) :
    /\ StrictlyInside(entries[i].target.path, ctx.artifactDir)
    /\ \A j \in 1..Len(entries) :
         i # j => entries[i].target.path # entries[j].target.path

\* the theme and the title found inside the document of the i-th raw entry
Discovered(i) ==
  sourceFile(Resolve(eff.contextDir, normalizeEnry(rawEntries[i]).path.p))

\* the theme given on the command line or in the config file
RootTheme ==
  LET theme == Or(cliFlags.theme, Opt(ctx.config, "theme"))
  IN  IF Truthy(theme) THEN parseTheme(theme) ELSE Undefined

\* C6: the theme of every parsed entry is the entry's own theme, else the one
\* discovered in its document, else the root theme, and undefined when there is
\* none of the three; its title is the entry's own, else the discovered one,
\* else the title of the config file
C6_ThemePrecedence ==
  \A i \in 1..Len(entries) :
    LET raw == normalizeEnry(rawEntries[i]) IN
    /\ entries[i].theme =
         Or(parseTheme(Field(raw, "theme")), Or(parseTheme(Discovered(i).theme), RootTheme))
    /\ entries[i].title =
         Or(Field(raw, "title"), Or(Discovered(i).title, Opt(ctx.config, "title")))

NoTwoWithSameName(ths) ==
  \A i, j \in 1..Len(ths) : ths[i].name = ths[j].name => i = j

IsPrefix(a, b) == Len(a) <= Len(b) /\ SubSeq(b, 1, Len(a)) = a

\* C7: no step leaves two records with the same name in the theme list, and
\* every step keeps the records already in it, in place: a record is only ever
\* appended, so the first record of a name stays and keeps its location
C7_ThemeNamesUnique ==
  [][NoTwoWithSameName(themes') /\ IsPrefix(themes, themes')]_vars

\* C7, the case: two parsed entries have themes of the same name at different
\* locations, after a root theme was set up
C7_Witness ==
  /\ Len(themes) >= 2
  /\ Truthy(RootTheme)
  /\ \E i, j \in 1..Len(entries) :
       /\ i < j
       /\ Truthy(entries[i].theme) /\ Truthy(entries[j].theme)
       /\ entries[i].theme.name = entries[j].theme.name
       /\ entries[i].theme.location # entries[j].theme.location

ReadingOrder == manifest.o.readingOrder.a

\* C8: the reading order of the manifest has one item per raw entry, in the
\* order of the raw entries: the i-th href, resolved against the staging
\* directory, is the target of the i-th parsed entry, which is the entry parsed
\* from the i-th raw entry
C8_ReadingOrder ==
  manifest # Undefined =>
    /\ Len(ReadingOrder) = Len(rawEntries)
    /\ Len(entries) = Len(rawEntries)
    /\ \A i \in 1..Len(rawEntries) :
         /\ entries[i].source.path =
              Resolve(eff.contextDir, normalizeEnry(rawEntries[i]).path.p)
         /\ Resolve(ctx.distDir, ReadingOrder[i].o.href.p) = entries[i].target.path

\* C8, the case: a manifest of two entries at different targets, the first
\* without a title and the second with one
C8_Witness ==
  /\ manifest # Undefined
  /\ Len(rawEntries) = 2
  /\ ReadingOrder[1].o.href # ReadingOrder[2].o.href
  /\ "title" \notin DOMAIN ReadingOrder[1].o
  /\ "title" \in DOMAIN ReadingOrder[2].o

\* a table of contents was requested: the config file does not say toc: false
TocRequested == Truthy(Pick(<<Opt(ctx.config, "toc"), Bool(TRUE)>>))

\* C9: once staging is over, the manifest has a resources member exactly when
\* a table of contents was requested, and toc.html is staged exactly then
C9_ResourcesIffToc ==
  pc \in AfterPreparePcs =>
    /\ "resources" \in DOMAIN manifest.o <=> TocRequested
    /\ Join(ctx.distDir, <<N_toc>>) \in fs.files <=> TocRequested

Commas(s) == {i \in 1..Len(s) : s[i] = ","}

\* C10: for a size string, parsePageSize returns the format when there is no
\* comma, width and height when there is one comma with text on both sides,
\* and fails for every other string
C10_PageSizeShapes ==
  (Merged /\ IsString(eff.size) /\ Len(eff.size.s) > 0
     /\ (pc \in AfterPreparePcs \/ error = Throw("Cannot parse size"))) =>
    LET s == eff.size.s
        k == CHOOSE i \in Commas(s) : TRUE
    IN  IF Commas(s) = {}
          THEN outputSize = [t |-> "format", format |-> s]
        ELSE IF Cardinality(Commas(s)) = 1 /\ 1 < k /\ k < Len(s)
          THEN outputSize = [t |-> "size", width |-> SubSeq(s, 1, k - 1),
                             height |-> SubSeq(s, k + 1, Len(s))]
        ELSE pc = "failed" /\ error = Throw("Cannot parse size")

\* the caller named a config file and there is no file at that path
ExplicitConfigMissing == Truthy(cliFlags.configPath) /\ IsUndefined(configFile)

\* C11: when the caller names a config file that does not exist, the build
\* fails with a configuration error as soon as the file is looked for: it does
\* not go on to merge the configuration, stage or render
C11_MissingConfigFails ==
  (ExplicitConfigMissing /\ pc # "loadConfig") =>
    /\ pc = "failed"
    /\ error = Throw("ConfigError")
    /\ fs = FreshFs
    /\ ~servers
    /\ browser = "none"

\* the resolved entry sequence is empty: no input flag and no config entry
NoEntries == collectRawEntries(cliFlags, configFile) = <<>>

BeforeStagingPcs == {"loadConfig", "mergeConfig", "setupThemes", "parseEntries", "failed"}

\* nothing was deleted, created or written, no server and no browser started
NoSideEffect ==
  /\ fs \in {FreshFs, StaleFs}
  /\ manifest = Undefined /\ tocDoc = Undefined
  /\ ~servers
  /\ browser = "none"

Phase ==
  CASE pc = "failed" -> -1
    [] pdf # Undefined -> 5
    [] pc = "pdf" -> 4
    [] pc \in {"loadMetadata", "loadTOC", "awaitTOC", "emulate", "waitReady"} -> 3
    [] browser # "none" -> 2
    [] servers -> 1
    [] OTHER -> 0

\* what the session has done by the time it is in each phase
PhaseReached ==
  /\ Phase >= 1 => servers
  /\ Phase >= 2 => browser # "none"
  /\ Phase >= 3 => page.loaded /\ page.viewer # "absent"
  /\ Phase >= 4 => page.viewer = "complete"
  /\ Phase >= 5 => pdf.viewer = "complete"
  /\ page.loaded => servers /\ browser # "none"

\* C13: every step of a render session stays in its phase, goes on to the
\* next one, or aborts once to failure, from which nothing leaves; a phase is
\* entered only with what it stands for done: the servers listen before the
\* page is loaded and page.pdf runs only once readyState was seen complete
C13_PhasesInOrder ==
  /\ [](PhaseReached)
  /\ [][\/ Phase' = Phase
         \/ (Phase >= 0 /\ Phase' = Phase + 1)
         \/ (Phase >= 0 /\ Phase' = -1)]_vars

\* C13, the case: a session that has gone through all the phases to the
\* captured PDF, with a viewer that was still paginating when it became ready
C13_Witness ==
  /\ Phase = 5
  /\ pc = "done"
  /\ metadata.at \in {"loading", "interactive"}

\* C14: loadMetadata and loadTOC are invoked only after the page was switched
\* to print media and readyState was seen complete: what either has returned
\* was read from a complete viewer under print emulation, and the TOC wait is
\* only ever pending on such a page
C14_ExtractAfterPagination ==
  /\ metadata # Undefined => metadata.at = "complete" /\ metadata.media = "print"
  /\ toc # Undefined => toc.at = "complete" /\ toc.media = "print"
  /\ pc \in {"loadTOC", "awaitTOC"} => page.viewer = "complete" /\ page.media = "print"

\* a step in which the viewer emits 'done' for 'toc', and for another action
TocEvent == page'.tocDone = page.tocDone + 1
OtherEvent == otherDone' = otherDone + 1

\* C15: loadTOC resolves only in a step in which a 'done' event of action
\* 'toc' reaches its registered listener, and only once; that step removes
\* the listener and hides the TOC. A 'done' event of another action leaves the
\* promise pending, the TOC shown and the listener registered. Once removed,
\* the listener is never registered again, so a later 'toc' event changes
\* nothing
C15_TocOneShot ==
  [][/\ toc' # toc => (TocEvent /\ page.listener /\ toc = Undefined)
     /\ (TocEvent /\ page.listener) =>
          (toc' # Undefined /\ ~page'.listener /\ ~page'.tocVisible)
     /\ OtherEvent =>
          (toc' = toc /\ pc' = pc /\ page' = page /\ page.listener /\ page.tocVisible)
     /\ toc # Undefined => (toc' = toc /\ ~page'.listener)]_vars

\* C15, the case: an event of another action came while the listener was
\* registered, then the 'toc' event resolved loadTOC, then a second 'toc'
\* event came with the listener removed
C15_Witness ==
  /\ otherDone >= 1
  /\ toc # Undefined
  /\ page.tocDone = 2
  /\ ~page.listener

\* C16: the TOC panel is hidden whenever loadTOC has resolved, stays hidden up
\* to the capture, and was hidden when page.pdf took the PDF
C16_TocHiddenAtCapture ==
  /\ toc # Undefined => ~page.tocVisible
  /\ pc \in {"emulate", "waitReady", "pdf"} => ~page.tocVisible
  /\ pdf # Undefined => ~pdf.tocVisible

\* C16, the case: a PDF was captured in a session in which loadTOC had shown
\* the TOC and waited through an event of another action
C16_Witness ==
  /\ pdf # Undefined
  /\ toc # Undefined
  /\ otherDone >= 1
  /\ page.tocDone >= 1

\* the files the manifest written by this build refers to: the hrefs of its
\* reading order and of its resources, resolved against the staging directory
ManifestTargets ==
  {Resolve(ctx.distDir, ReadingOrder[i].o.href.p) : i \in 1..Len(ReadingOrder)}
    \cup {Join(ctx.distDir, <<manifest.o.resources.a[i].o.href.s>>) :
            i \in 1..Len(manifest.o.resources.a)}

\* C17: whenever the manifest.json of this build exists in the staging
\* directory, every file its reading order and its toc.html resource refer to
\* exists there as well
C17_ManifestAfterTargets ==
  (manifest # Undefined /\ Join(ctx.distDir, <<N_manifest>>) \in fs.files) =>
    ManifestTargets \subseteq fs.files

\* the PostProcess calls of a successful run, in order
PostCalls ==
  <<[call |-> "load", arg |-> pdf], [call |-> "metadata", arg |-> metadata],
    [call |-> "toc", arg |-> toc], [call |-> "save", arg |-> eff.pressReady]>>

\* C18: the PostProcess calls made so far are the first calls of load(pdf),
\* metadata(metadata), toc(toc), save(outputFile, {pressReady}) in this order,
\* with the PDF page.pdf returned and the metadata and TOC the session
\* extracted; none is made before the capture, a successful run has made all
\* four, and the output file exists only once save was called
C18_PostProcessOrder ==
  /\ post # <<>> => IsPrefix(post, PostCalls)
  /\ post # <<>> => (pdf # Undefined /\ metadata # Undefined /\ toc # Undefined)
  /\ pc = "done" <=> Len(post) = 4
  /\ (Merged /\ outputFileOf(fs, eff.outFile) \in fs.files) => Len(post) = 4

\* C18, the case: a successful run with pressReady set whose metadata was read
\* before the viewer was complete
C18_Witness ==
  /\ pc = "done"
  /\ Len(post) = 4
  /\ post[4].arg = Bool(TRUE)
  /\ post[2].arg.at # "complete"
  /\ post[1].arg.viewer = "complete"

\* the executor of loadTOC has run: TOC extraction has begun
TocBegun == pc = "awaitTOC" \/ page.listener \/ page.tocDone > 0 \/ toc # Undefined

\* C19: TOC extraction begins only when loadMetadata has returned, and
\* page.pdf is requested only when both loadMetadata and loadTOC have
\* returned
C19_MetadataThenTocThenPdf ==
  /\ TocBegun => metadata # Undefined
  /\ (pc \in AfterWaitPcs \/ pdf # Undefined) => (metadata # Undefined /\ toc # Undefined)

\* C19, the case: the capture is about to be requested and the TOC was
\* extracted at a later state of the viewer than the metadata
C19_Witness ==
  /\ pc = "pdf"
  /\ metadata # Undefined /\ toc # Undefined
  /\ metadata.at = "loading"
  /\ toc.at = "interactive"

\* C20: every render session that is started eventually ends, with the PDF
\* captured and saved or in failure, whatever the viewer does
C20_SessionEnds == (pc = "generatePDF") ~> (pc \in {"done", "failed"})

====
